---- MODULE Spec2Model ----
(***************************************************************************)
(* Model of src/cli.ts of check-side-effects: the command-line driver      *)
(* `main`, its single-run mode and its snapshot test-suite mode.           *)
(*                                                                         *)
(* The external checker (./checker, checkSideEffects) is an opaque         *)
(* capability: per test case it either resolves to a text or rejects.      *)
(* Texts are sequences of UTF-16 code units; the file system is a map      *)
(* from absolute paths (sequences of segments) to file contents plus a     *)
(* set of directories.                                                     *)
(***************************************************************************)
EXTENDS Integers, Sequences, FiniteSets, TLC

VARIABLES
    args,               \* rawOpts.args as minimist parses it (options, line 53)
    tests,              \* testJson.tests, the parsed descriptor (line 99)
    checker,            \* per case: the text checkSideEffects resolves to, or Throw
    files,              \* regular files on disk: path -> content
    dirs,               \* directories on disk
    pc,                 \* position of main: start, loop, awaiting, done
    i,                  \* number of cases whose loop body has been entered
    pending,            \* cases whose checkSideEffects promise is outstanding
    failedExpectations, \* the accumulator of line 101
    log,                \* what console.log has printed in this run
    outcome,            \* how main ended: running, or the kind of return/throw
    calls,              \* history: the options of every checkSideEffects call
    writes,             \* history: every writeFileSync of this run
    comparisons,        \* history: the comparisons of line 132 made in this run
    filesAtStart,       \* history: the files as the run started
    run,                \* number of the current run of main
    prev                \* history: how the previous run ended

vars == <<args, tests, checker, files, dirs, pc, i, pending, failedExpectations,
          log, outcome, calls, writes, comparisons, filesAtStart, run, prev>>

----------------------------------------------------------------------------
(* Bounds of the model *)

MaxCases == 2
MaxRuns == 2
MaxArgs == 3

----------------------------------------------------------------------------
(* Texts: JavaScript strings as sequences of UTF-16 code units *)

LoneSurrogate == "\\uD800"
ReplacementChar == "\\uFFFD"

EmptyText == <<>>
Texts == { EmptyText, <<"X">>, <<LoneSurrogate>> }

\* A rejected checkSideEffects promise (not a text).
Throw == <<"reject">>

\* writeFileSync(path, data, 'utf-8') followed by readFileSync(path, 'utf-8'):
\* a lone surrogate cannot be encoded and is stored as U+FFFD.
Utf8(text) ==
    [k \in DOMAIN text |-> IF text[k] = LoneSurrogate THEN ReplacementChar ELSE text[k]]

----------------------------------------------------------------------------
(* Paths *)

Cwd == <<"proj">>
TestFileDir == <<"proj">>

RECURSIVE DropDots(_)
DropDots(rel) ==
    IF rel = <<>> THEN <<>>
    ELSE IF Head(rel) = "." THEN DropDots(Tail(rel))
    ELSE <<Head(rel)>> \o DropDots(Tail(rel))

\* path.resolve(dir, rel) for a relative path rel
resolve(dir, rel) == dir \o DropDots(rel)

\* path.dirname
dirname(path) == IF Len(path) <= 1 THEN <<>> ELSE SubSeq(path, 1, Len(path) - 1)

\* fs.existsSync on a given disk
existsSync(fs, ds, path) == path \in DOMAIN fs \/ path \in ds

\* _recursiveMkDir(path): the directories that exist afterwards
RECURSIVE RecursiveMkDir(_, _, _)
RecursiveMkDir(fs, ds, path) ==
    IF existsSync(fs, ds, path) THEN ds
    ELSE RecursiveMkDir(fs, ds, dirname(path)) \cup {path}

----------------------------------------------------------------------------
(* Command line *)

\* Tokens are sequences of chunks, so that String.endsWith can be computed.
NodeTok == <<"/usr/bin/", "node">>
NodeExeTok == <<"C:/", "node", ".exe">>
BinTok == <<"check-side-effects">>
ModTok == <<"mod.js">>
NumTok == <<"5">>
Tokens == { NodeTok, NodeExeTok, BinTok, ModTok, NumTok }

Undefined == "undefined"

\* minimist pushes a positional token that looks like a number as a Number.
Positional(tok) ==
    IF tok = NumTok THEN [type |-> "number", raw |-> tok]
    ELSE [type |-> "string", raw |-> tok]

\* options._
Underscore(a) == [k \in DOMAIN a.positional |-> Positional(a.positional[k])]

\* String.prototype.endsWith
endsWith(str, suffix) ==
    /\ Len(suffix) <= Len(str)
    /\ SubSeq(str, Len(str) - Len(suffix) + 1, Len(str)) = suffix

isNodeBinary(str) == endsWith(str, <<"node">>) \/ endsWith(str, <<"node", ".exe">>)

\* Array.prototype.slice(n)
slice(arr, n) == SubSeq(arr, n + 1, Len(arr))

\* options._[0] is a string, so that str.endsWith is callable (line 192)
EndsWithCallable(u) == Len(u) > 0 /\ u[1].type = "string"

\* the module list of single-run mode (line 166)
SingleEsModules(u) == IF isNodeBinary(u[1].raw) THEN slice(u, 2) ELSE slice(u, 1)

----------------------------------------------------------------------------
(* Test descriptor *)

\* esModules: string | string[]
Str(s) == [isArray |-> FALSE, str |-> s, list |-> <<>>]
Arr(l) == [isArray |-> TRUE, str |-> "", list |-> l]

\* line 104
unresolvedEsModules(test) ==
    IF test.esModules.isArray THEN test.esModules.list ELSE <<test.esModules.str>>

\* line 105
resolvedEsModules(test) ==
    [k \in DOMAIN unresolvedEsModules(test) |->
        resolve(TestFileDir, <<unresolvedEsModules(test)[k]>>)]

\* line 106 (join(' ') kept as the list of the joined names)
modulesDescription(test) == unresolvedEsModules(test)

\* object spread { ...base, ...override }
Spread(base, override) ==
    [f \in (DOMAIN base) \cup (DOMAIN override) |->
        IF f \in DOMAIN override THEN override[f] ELSE base[f]]

\* as SuiteCheckerOptions, with the checker flags of the command line as the base
SuiteCheckerOptions_WithFlags(a, test) ==
    Spread([esModules |-> resolvedEsModules(test), cwd |-> a.cwd,
            output |-> a.output, warnings |-> a.warnings], test.options)

\* lines 112-116
SuiteCheckerOptions(a, test) ==
    Spread([esModules |-> resolvedEsModules(test), cwd |-> a.cwd], test.options)

\* lines 173-183
SingleCheckerOptions(a, esModules) ==
    [esModules |-> esModules, cwd |-> a.cwd, output |-> a.output, warnings |-> a.warnings]

\* line 122
expectedOutputPath(test) == resolve(TestFileDir, test.expectedOutput)

\* lines 123-129
LoadExpected(fs, ds, path) == IF existsSync(fs, ds, path) THEN fs[path] ELSE EmptyText

\* as createPatch, with the old and the new text exchanged
createPatch_Swapped(fileName, oldStr, newStr) ==
    [fileName |-> fileName, oldStr |-> newStr, newStr |-> oldStr]

\* createPatch(fileName, oldStr, newStr): the patch is kept as what it transforms
createPatch(fileName, oldStr, newStr) ==
    [fileName |-> fileName, oldStr |-> oldStr, newStr |-> newStr]

\* as Mismatch, with an empty expected text never counted as a mismatch
Mismatch_IgnoresEmptyExpected(result, expectedOutput) ==
    result # expectedOutput /\ expectedOutput # EmptyText

\* line 132
Mismatch(result, expectedOutput) == result # expectedOutput

\* as ShouldWrite, with the update flag not consulted
ShouldWrite_WithoutUpdate(a, mismatch) == mismatch

\* line 135
ShouldWrite(a, mismatch) == mismatch /\ a.update

\* as WrittenContent, with the expected text written back instead of the result
WrittenContent_Expected(result, expectedOutput) == Utf8(expectedOutput)

\* line 137: what writeFileSync stores
WrittenContent(result, expectedOutput) == Utf8(result)

\* as ReportOutcome, with the update flag not consulted
ReportOutcome_IgnoresUpdate(failed, a) ==
    IF Len(failed) > 0 THEN "AggregateFailure" ELSE "passed"

\* lines 145, 150: how the final report ends
ReportOutcome(failed, a) ==
    IF Len(failed) > 0
    THEN IF a.update THEN "updated" ELSE "AggregateFailure"
    ELSE "passed"

\* as LoopContinues, with a break after the first mismatch
LoopContinues_FailFast(mismatch) == ~mismatch

\* the for loop of line 103 has no break: a mismatch does not leave it
LoopContinues(mismatch) == TRUE

\* as CanStartCase, with the promise of the previous case not awaited
CanStartCase_WithoutAwait == pc \in {"loop", "awaiting"}

\* line 119 awaits the checker: the next case starts only from the loop head
CanStartCase == pc = "loop"

----------------------------------------------------------------------------
(* Inputs *)

Argvs == UNION { [1..n -> Tokens] : n \in 0..MaxArgs }

\* The checker flags of a command line: all defaults, or some of them given.
FlagSets ==
    { [output |-> Undefined, warnings |-> FALSE],
      [output |-> "bundle.js", warnings |-> TRUE] }

CommandLine(help, test, update, flags, positional) ==
    [help |-> help, test |-> test, update |-> update, cwd |-> Cwd,
     output |-> flags.output, warnings |-> flags.warnings, positional |-> positional]

\* Command lines without --test: every positional list.
SingleArgs ==
    { CommandLine(h, "", u, f, p) : h \in BOOLEAN, u \in BOOLEAN, f \in FlagSets, p \in Argvs }

\* Command lines with --test, with and without module paths beside it.
SuiteArgs ==
    { CommandLine(h, t, u, f, IF f.warnings THEN <<BinTok, ModTok>> ELSE <<BinTok>>) :
        h \in BOOLEAN, t \in {"tests.json", "missing.json"}, u \in BOOLEAN, f \in FlagSets }

\* Descriptor files that exist under the working directory.
DescriptorFiles == { "tests.json" }

NoOverride == <<>>
Overrides ==
    { NoOverride,
      [esModules |-> <<>>],
      [cwd |-> <<"other">>, warnings |-> FALSE] }

EsModulesDecls == { Str("a.js"), Arr(<<"a.js", "b.js">>), Arr(<<>>) }

ExpectedOutputs == { <<"a.snap">>, <<".", "a.snap">>, <<"out", "b.snap">> }

\* Test records that vary the snapshot, and test records that vary the options.
SnapshotRecords ==
    [esModules : {Str("a.js")}, options : {NoOverride}, expectedOutput : ExpectedOutputs]
OptionRecords ==
    [esModules : EsModulesDecls, options : Overrides, expectedOutput : {<<"a.snap">>}]

Descriptors ==
    UNION { [1..n -> SnapshotRecords] \cup [1..n -> OptionRecords] : n \in 0..MaxCases }

\* What the checker does on each case of a descriptor.
Checkers(d) ==
    IF \A k \in DOMAIN d : d[k] \in SnapshotRecords
    THEN [DOMAIN d -> Texts \cup {Throw}]
    ELSE [DOMAIN d -> {<<"X">>}]

SnapshotPaths == { resolve(TestFileDir, e) : e \in ExpectedOutputs }

DiskTexts == { EmptyText, <<"X">> }

BaseDirs == { <<>>, TestFileDir }

\* Disks: a file lies in an existing directory; a snapshot below TestFileDir that
\* exists holds the text X.
Disks ==
    { d \in [files : UNION { [D -> DiskTexts] : D \in SUBSET SnapshotPaths },
             dirs : { BaseDirs \cup E : E \in SUBSET { dirname(sp) : sp \in SnapshotPaths } }] :
        \A f \in DOMAIN d.files :
            /\ dirname(f) \in d.dirs
            /\ dirname(f) # TestFileDir => d.files[f] = <<"X">> }

Init ==
    /\ \/ args \in SingleArgs /\ tests = <<>>
       \/ /\ args \in SuiteArgs
          /\ tests \in IF args.test \notin DescriptorFiles THEN {<<>>}
                      ELSE IF args.help THEN { d \in Descriptors : Len(d) <= 1 }
                      ELSE Descriptors
    /\ checker \in Checkers(tests)
    /\ \E d \in Disks : files = d.files /\ dirs = d.dirs /\ filesAtStart = d.files
    /\ pc = "start"
    /\ i = 0
    /\ pending = {}
    /\ failedExpectations = <<>>
    /\ log = <<>>
    /\ outcome = "running"
    /\ calls = <<>>
    /\ writes = <<>>
    /\ comparisons = <<>>
    /\ run = 1
    /\ prev = [outcome |-> "none", update |-> FALSE]

----------------------------------------------------------------------------
(* main *)

\* lines 86-89
Main_Help ==
    /\ pc = "start"
    /\ args.help
    /\ log' = Append(log, [kind |-> "help"])
    /\ outcome' = "help"
    /\ pc' = "done"
    /\ UNCHANGED <<args, tests, checker, files, dirs, i, pending, failedExpectations,
                   calls, writes, comparisons, filesAtStart, run, prev>>

\* lines 91-96
Main_TestFileMissing ==
    /\ pc = "start"
    /\ ~args.help
    /\ args.test # ""
    /\ args.test \notin DescriptorFiles
    /\ outcome' = "TestFileNotFound"
    /\ pc' = "done"
    /\ UNCHANGED <<args, tests, checker, files, dirs, i, pending, failedExpectations,
                   log, calls, writes, comparisons, filesAtStart, run, prev>>

\* lines 91-101
Main_LoadTests ==
    /\ pc = "start"
    /\ ~args.help
    /\ args.test # ""
    /\ args.test \in DescriptorFiles
    /\ log' = Append(log, [kind |-> "loading"])
    /\ failedExpectations' = <<>>
    /\ pc' = "loop"
    /\ UNCHANGED <<args, tests, checker, files, dirs, i, pending, outcome,
                   calls, writes, comparisons, filesAtStart, run, prev>>

\* lines 103-119: the loop body up to the call of checkSideEffects
Test_Begin ==
    /\ CanStartCase
    /\ i < Len(tests)
    /\ LET k == i + 1
           test == tests[k]
       IN /\ log' = Append(log, [kind |-> "progress", case |-> k,
                                 text |-> modulesDescription(test)])
          /\ calls' = Append(calls, [case |-> k, options |-> SuiteCheckerOptions(args, test)])
          /\ pending' = pending \cup {k}
          /\ i' = k
    /\ pc' = "awaiting"
    /\ UNCHANGED <<args, tests, checker, files, dirs, failedExpectations, outcome,
                   writes, comparisons, filesAtStart, run, prev>>

\* lines 119-139: the promise of case k resolves and the loop body completes
Test_Resume(k) ==
    /\ pc \in {"loop", "awaiting"}
    /\ k \in pending
    /\ checker[k] # Throw
    /\ LET test == tests[k]
           result == checker[k]
           path == expectedOutputPath(test)
           expectedOutput == LoadExpected(files, dirs, path)
           mismatch == Mismatch(result, expectedOutput)
       IN /\ failedExpectations' =
                IF mismatch
                THEN Append(failedExpectations,
                            [testDescription |-> modulesDescription(test),
                             diff |-> createPatch(path, expectedOutput, result),
                             case |-> k])
                ELSE failedExpectations
          /\ IF ShouldWrite(args, mismatch)
             THEN /\ dirs' = RecursiveMkDir(files, dirs, dirname(path))
                  /\ files' = [p \in (DOMAIN files) \cup {path} |->
                                  IF p = path THEN WrittenContent(result, expectedOutput)
                                  ELSE files[p]]
                  /\ writes' = Append(writes,
                                      [case |-> k, path |-> path,
                                       content |-> WrittenContent(result, expectedOutput)])
             ELSE UNCHANGED <<dirs, files, writes>>
          /\ i' = IF LoopContinues(mismatch) THEN i ELSE Len(tests)
    /\ comparisons' = Append(comparisons,
                             [case |-> k,
                              actual |-> checker[k],
                              existed |-> expectedOutputPath(tests[k]) \in DOMAIN files,
                              onDisk |-> IF expectedOutputPath(tests[k]) \in DOMAIN files
                                         THEN files[expectedOutputPath(tests[k])]
                                         ELSE EmptyText])
    /\ pending' = pending \ {k}
    /\ pc' = "loop"
    /\ UNCHANGED <<args, tests, checker, log, outcome, calls, filesAtStart, run, prev>>

\* as Test_CheckerThrows, with the snapshots written so far restored
Test_CheckerThrows_RollsBack(k) ==
    /\ pc \in {"loop", "awaiting"}
    /\ k \in pending
    /\ checker[k] = Throw
    /\ pending' = pending \ {k}
    /\ outcome' = "CheckerError"
    /\ pc' = "done"
    /\ files' = filesAtStart
    /\ UNCHANGED <<args, tests, checker, dirs, i, failedExpectations, log,
                   calls, writes, comparisons, filesAtStart, run, prev>>

\* as Test_CheckerThrows, with the rejection caught and the loop going on
Test_CheckerThrows_Caught(k) ==
    /\ pc \in {"loop", "awaiting"}
    /\ k \in pending
    /\ checker[k] = Throw
    /\ pending' = pending \ {k}
    /\ pc' = "loop"
    /\ UNCHANGED <<args, tests, checker, files, dirs, i, failedExpectations, log, outcome,
                   calls, writes, comparisons, filesAtStart, run, prev>>

\* line 119: the promise of case k rejects and the rejection leaves main
Test_CheckerThrows(k) ==
    /\ pc \in {"loop", "awaiting"}
    /\ k \in pending
    /\ checker[k] = Throw
    /\ pending' = pending \ {k}
    /\ outcome' = "CheckerError"
    /\ pc' = "done"
    /\ UNCHANGED <<args, tests, checker, files, dirs, i, failedExpectations, log,
                   calls, writes, comparisons, filesAtStart, run, prev>>

\* as PrintedFailures, with only the first failure printed
PrintedFailures_FirstOnly(failed) == SubSeq(failed, 1, 1)

\* lines 147-148: the failures whose description and diff are printed
PrintedFailures(failed) == failed

\* lines 142-161
Report ==
    /\ pc = "loop"
    /\ i >= Len(tests)
    /\ pending = {}
    /\ log' = log \o <<[kind |-> "newline"]>> \o
              (IF Len(failedExpectations) > 0
               THEN <<[kind |-> "changed"], [kind |-> "diffs", items |-> PrintedFailures(failedExpectations)]>> \o
                    (IF args.update
                     THEN <<[kind |-> "updated", n |-> Len(failedExpectations)]>>
                     ELSE <<[kind |-> "failed", n |-> Len(failedExpectations)],
                            [kind |-> "rerun"]>>)
               ELSE <<[kind |-> "passed"]>>)
    /\ outcome' = ReportOutcome(failedExpectations, args)
    /\ pc' = "done"
    /\ UNCHANGED <<args, tests, checker, files, dirs, i, pending, failedExpectations,
                   calls, writes, comparisons, filesAtStart, run, prev>>

\* lines 162-187
Main_Single ==
    /\ pc = "start"
    /\ ~args.help
    /\ args.test = ""
    /\ LET u == Underscore(args)
       IN IF ~EndsWithCallable(u)
          THEN outcome' = "TypeError" /\ calls' = calls
          ELSE IF Len(SingleEsModules(u)) = 0
          THEN outcome' = "NoModules" /\ calls' = calls
          ELSE /\ outcome' = "returned"
               /\ calls' = Append(calls,
                      [case |-> 0, options |-> SingleCheckerOptions(args, SingleEsModules(u))])
    /\ pc' = "done"
    /\ UNCHANGED <<args, tests, checker, files, dirs, i, pending, failedExpectations,
                   log, writes, comparisons, filesAtStart, run, prev>>

\* main is run again on the same command line (the update flag aside), the same
\* descriptor and the same checker, on the disk the previous run left
NextRun ==
    /\ pc = "done"
    /\ run < MaxRuns
    /\ run' = run + 1
    /\ prev' = [outcome |-> outcome, update |-> args.update]
    /\ \E u \in BOOLEAN : args' = [args EXCEPT !.update = u]
    /\ pc' = "start"
    /\ i' = 0
    /\ pending' = {}
    /\ failedExpectations' = <<>>
    /\ log' = <<>>
    /\ outcome' = "running"
    /\ calls' = <<>>
    /\ writes' = <<>>
    /\ comparisons' = <<>>
    /\ filesAtStart' = files
    /\ UNCHANGED <<tests, checker, files, dirs>>

Next ==
    \/ Main_Help
    \/ Main_TestFileMissing
    \/ Main_LoadTests
    \/ Test_Begin
    \/ \E k \in 1..MaxCases : Test_Resume(k)
    \/ \E k \in 1..MaxCases : Test_CheckerThrows(k)
    \/ Report
    \/ Main_Single
    \/ NextRun

Spec == Init /\ [][Next]_vars

----------------------------------------------------------------------------
(* Properties *)

ReportOutcomes == { "passed", "updated", "AggregateFailure" }

\* main has ended with the final report of suite mode (lines 142-161)
AtFinalReport == pc = "done" /\ outcome \in ReportOutcomes

\* the cases whose actual output differed from the text of their snapshot
Differed ==
    { comparisons[n].case :
        n \in { m \in DOMAIN comparisons : comparisons[m].actual # comparisons[m].onDisk } }

ComparedCases == { comparisons[n].case : n \in DOMAIN comparisons }

LogOf(kind) == SelectSeq(log, LAMBDA l : l.kind = kind)

ProgressLines == LogOf("progress")

\* the first n cases have a progress line each, in descriptor order
ProgressOK(n) ==
    /\ Len(ProgressLines) = n
    /\ \A k \in 1..n :
        /\ ProgressLines[k].case = k
        /\ ProgressLines[k].text = unresolvedEsModules(tests[k])

\* C1: a suite run that reaches the final report throws exactly when update is
\* off and some case's output differed from its snapshot; with update on it does
\* not throw, and with update off and no mismatch its last message is
\* 'All tests passed.' and no diff is printed.
C1_ThrowsIffMismatchWithoutUpdate ==
    AtFinalReport =>
        /\ (outcome = "AggregateFailure") <=> (~args.update /\ Differed # {})
        /\ args.update => outcome \in {"passed", "updated"}
        /\ (~args.update /\ Differed = {}) =>
               /\ outcome = "passed"
               /\ log[Len(log)].kind = "passed"
               /\ LogOf("diffs") = <<>>

C1_Witness ==
    /\ AtFinalReport
    /\ outcome = "AggregateFailure"
    /\ Len(tests) = 2
    /\ Cardinality(Differed) = 1

\* C2 as claimed: a suite run of N cases prints N progress lines however it
\* ends, a failure of the checker included.
C2_NProgressLinesWhateverTheOutcome ==
    (pc = "done" /\ outcome \in ReportOutcomes \cup {"CheckerError"}) =>
        ProgressOK(Len(tests))

\* C2 amended: a suite run that reaches the final report prints one progress
\* line per case, in descriptor order, whether the cases pass or mismatch; a run
\* ended by the checker failing on case k prints the progress lines of cases
\* 1..k only.
C2_ProgressLinesUpToCheckerFailure ==
    /\ AtFinalReport => ProgressOK(Len(tests))
    /\ (pc = "done" /\ outcome = "CheckerError") =>
           \E k \in DOMAIN tests :
               /\ checker[k] = Throw
               /\ \A j \in 1..(k - 1) : checker[j] # Throw
               /\ ProgressOK(k)

C2_Witness ==
    /\ pc = "done"
    /\ outcome = "CheckerError"
    /\ Len(tests) = 2
    /\ Len(ProgressLines) = 1
    /\ Differed = {}

\* the run before this one ended with zero failures, or in update mode with
\* its mismatching snapshots rewritten
PreviousRunSettled == run >= 2 /\ prev.outcome \in {"passed", "updated"}

\* C3 as claimed: after a run with zero failures, or an update run, the next
\* run over the same descriptor and checker records no failure, for every
\* descriptor.
C3_NextRunHasNoFailures ==
    PreviousRunSettled => failedExpectations = <<>>

\* cases that resolve to the same snapshot path have the same output
SharedPathsAgree ==
    \A j, k \in DOMAIN tests :
        expectedOutputPath(tests[j]) = expectedOutputPath(tests[k]) => checker[j] = checker[k]

\* every output is read back from a snapshot as it was written
OutputsSurviveUtf8 == \A k \in DOMAIN tests : checker[k] # Throw => Utf8(checker[k]) = checker[k]

\* C3 amended: the next run records no failure provided every output survives
\* the UTF-8 write and read, and cases sharing a snapshot path agree on their
\* output.
C3_NextRunHasNoFailuresOnAgreeingPaths ==
    (PreviousRunSettled /\ SharedPathsAgree /\ OutputsSurviveUtf8) =>
        failedExpectations = <<>>

C3_Witness ==
    /\ run = 2
    /\ prev.outcome = "updated"
    /\ ~args.update
    /\ pc = "done"
    /\ outcome = "passed"
    /\ Len(tests) = 2
    /\ tests[1].expectedOutput # tests[2].expectedOutput
    /\ expectedOutputPath(tests[1]) = expectedOutputPath(tests[2])
    /\ Len(comparisons) = 2

WritesOf(k) == SelectSeq(writes, LAMBDA w : w.case = k)

WrittenPaths == { writes[n].path : n \in DOMAIN writes }

\* The frame of the snapshot files, with Stored(text) the content a write of
\* the output text leaves in the file.
SnapshotFrame(Stored(_)) ==
    /\ ~args.update => (files = filesAtStart /\ writes = <<>>)
    /\ \A n \in DOMAIN writes :
        /\ writes[n].case \in Differed
        /\ writes[n].path = expectedOutputPath(tests[writes[n].case])
        /\ writes[n].content = Stored(checker[writes[n].case])
        /\ writes[n].path \in DOMAIN files
        /\ dirname(writes[n].path) \in dirs
    /\ \A p \in WrittenPaths :
        LET last == CHOOSE n \in DOMAIN writes :
                        /\ writes[n].path = p
                        /\ \A m \in DOMAIN writes : writes[m].path = p => m <= n
        IN files[p] = Stored(checker[writes[last].case])
    /\ \A k \in DOMAIN tests :
        Len(WritesOf(k)) = IF args.update /\ k \in Differed THEN 1 ELSE 0
    /\ \A p \in (DOMAIN files) \cup (DOMAIN filesAtStart) :
        p \notin WrittenPaths =>
            /\ p \in DOMAIN files
            /\ p \in DOMAIN filesAtStart
            /\ files[p] = filesAtStart[p]
    \* Scenario B
    /\ (/\ AtFinalReport
        /\ args.update
        /\ Len(tests) = 1
        /\ expectedOutputPath(tests[1]) \notin DOMAIN filesAtStart
        /\ checker[1] = <<"X">>) =>
           /\ files[expectedOutputPath(tests[1])] = <<"X">>
           /\ outcome = "updated"
           /\ LogOf("updated") = <<[kind |-> "updated", n |-> 1]>>

\* C4 as claimed: snapshot files change only in update mode, a case writes its
\* snapshot only when its output differs, once, and the content written is
\* exactly the actual output; other snapshots are left as they were.
C4_SnapshotWrittenOnceWithActual == SnapshotFrame(LAMBDA text : text)

\* C4 amended: as claimed, with the content written being the UTF-8 encoding of
\* the actual output (a lone surrogate is stored as U+FFFD), which equals the
\* actual output when that is well-formed.
C4_SnapshotWrittenOnceWithEncodedActual == SnapshotFrame(Utf8)

C4_Witness ==
    /\ AtFinalReport
    /\ args.update
    /\ Len(tests) = 2
    /\ Len(writes) = 1
    /\ writes[1].case = 2
    /\ writes[1].path \notin DOMAIN filesAtStart
    /\ dirname(writes[1].path) # TestFileDir
    /\ ComparedCases = {1, 2}

\* the description and the diff of case k, as line 134 records them
FailureOf(k) ==
    [testDescription |-> unresolvedEsModules(tests[k]),
     diff |-> [fileName |-> expectedOutputPath(tests[k]),
               oldStr |-> comparisons[k].onDisk,
               newStr |-> checker[k]],
     case |-> k]

\* C5: a mismatch does not end the evaluation: the cases are compared one after
\* the other up to the last, the loop is left early only by a failure of the
\* checker, and the run throws its aggregate failure only once all N cases are
\* compared and the description and diff of every failure are printed.
C5_BatchEvaluationLateFailure ==
    /\ pc = "loop" => ComparedCases = 1..i
    /\ (pc = "done" /\ outcome \in ReportOutcomes \cup {"CheckerError"}
            /\ ComparedCases # DOMAIN tests) =>
           /\ outcome = "CheckerError"
           /\ checker[i] = Throw
           /\ ComparedCases = 1..(i - 1)
    /\ outcome = "AggregateFailure" =>
           /\ ComparedCases = DOMAIN tests
           /\ Len(calls) = Len(tests)
           /\ Len(LogOf("diffs")) = 1
           /\ \A k \in Differed :
                \E n \in DOMAIN LogOf("diffs")[1].items :
                    LogOf("diffs")[1].items[n] = FailureOf(k)
           /\ \E n, m \in DOMAIN log :
                n < m /\ log[n].kind = "diffs" /\ log[m].kind = "failed"
    /\ outcome # "AggregateFailure" => LogOf("failed") = <<>>

C5_Witness ==
    /\ pc = "done"
    /\ outcome = "AggregateFailure"
    /\ Len(tests) = 2
    /\ Differed = {1, 2}
    /\ Len(failedExpectations) = 2

FailuresOf(k) == SelectSeq(failedExpectations, LAMBDA f : f.case = k)

\* main has read the descriptor: the run is a suite run
SuiteRun == ~args.help /\ args.test \in DescriptorFiles

\* C6: a case whose snapshot file does not exist is compared with the empty
\* text: it passes exactly when the output is empty, otherwise one failure is
\* recorded for it whose diff turns the empty text into the output; the run
\* does not end for that reason (Scenario A: one failure, rerun command, throw).
C6_MissingSnapshotIsEmptyText ==
    /\ \A n \in DOMAIN comparisons :
        ~comparisons[n].existed =>
            LET k == comparisons[n].case
            IN /\ IF comparisons[n].actual = EmptyText
                  THEN FailuresOf(k) = <<>>
                  ELSE /\ Len(FailuresOf(k)) = 1
                       /\ FailuresOf(k)[1].testDescription = unresolvedEsModules(tests[k])
                       /\ FailuresOf(k)[1].diff =
                              [fileName |-> expectedOutputPath(tests[k]),
                               oldStr |-> EmptyText,
                               newStr |-> comparisons[n].actual]
               /\ pc = "done" =>
                      \/ outcome \in ReportOutcomes
                      \/ outcome = "CheckerError" /\ checker[i] = Throw /\ i > k
    /\ (/\ SuiteRun
        /\ pc = "done"
        /\ ~args.update
        /\ Len(tests) = 1
        /\ expectedOutputPath(tests[1]) \notin DOMAIN filesAtStart
        /\ checker[1] = <<"X">>) =>
           /\ outcome = "AggregateFailure"
           /\ Len(failedExpectations) = 1
           /\ LogOf("failed") = <<[kind |-> "failed", n |-> 1]>>
           /\ Len(LogOf("rerun")) = 1

C6_Witness ==
    /\ pc = "done"
    /\ outcome = "AggregateFailure"
    /\ Len(tests) = 1
    /\ Len(comparisons) = 1
    /\ ~comparisons[1].existed
    /\ checker[1] = <<"X">>
    /\ Len(failedExpectations) = 1

\* the module list the command line asks for: the positional tokens after the
\* binary, or after the interpreter and the script
RequestedModules(positional) ==
    IF Len(positional) > 0 /\ isNodeBinary(positional[1])
    THEN slice(positional, 2)
    ELSE slice(positional, 1)

\* C7: in single-run mode a command line whose module list is empty, one
\* without any positional token included, ends with the error 'You must provide
\* at least one ES module...' and the checker is not called.
C7_NoModulesIsConfigurationError ==
    (/\ pc = "done"
     /\ ~args.help
     /\ args.test = ""
     /\ RequestedModules(args.positional) = <<>>) =>
        /\ outcome = "NoModules"
        /\ calls = <<>>

\* C8: every call of the checker, in single-run mode and in suite mode, is
\* given a non-empty list of module paths.
C8_CheckerModulesNonEmpty ==
    \A n \in DOMAIN calls : Len(calls[n].options.esModules) > 0

\* C9: at most one call of the checker is outstanding; the call for a case is
\* made only once every earlier case has returned, has been compared and, in
\* update mode, has had its snapshot written; the cases are called and compared
\* in descriptor order.
C9_StrictlySequential ==
    /\ Cardinality(pending) <= 1
    /\ \A k \in pending :
        /\ pc = "awaiting"
        /\ k = i
        /\ ComparedCases = 1..(k - 1)
        /\ \A j \in 1..(k - 1) :
            (args.update /\ j \in Differed) =>
                /\ Len(WritesOf(j)) = 1
                /\ expectedOutputPath(tests[j]) \in DOMAIN files
    /\ SuiteRun =>
        /\ Len(calls) = i
        /\ \A n \in DOMAIN calls : calls[n].case = n
    /\ \A n \in DOMAIN comparisons : comparisons[n].case = n

C9_Witness ==
    /\ pending = {2}
    /\ pc = "awaiting"
    /\ ComparedCases = {1}
    /\ Len(calls) = 2
    /\ Len(writes) = 1

\* C10: a failure of the checker on case k ends main at once: no later case is
\* called, compared or written, no progress line follows, and neither the
\* failure report nor the success message is printed.
C10_CheckerFailureIsFatal ==
    /\ \A k \in DOMAIN tests :
        (checker[k] = Throw /\ k <= i /\ k \notin pending) =>
            /\ pc = "done"
            /\ outcome = "CheckerError"
            /\ i = k
    /\ outcome = "CheckerError" =>
        /\ pc = "done"
        /\ checker[i] = Throw
        /\ Len(calls) = i
        /\ Len(ProgressLines) = i
        /\ ComparedCases = 1..(i - 1)
        /\ \A n \in DOMAIN writes : writes[n].case < i
        /\ \A n \in DOMAIN log : log[n].kind \in {"loading", "progress"}

C10_Witness ==
    /\ pc = "done"
    /\ outcome = "CheckerError"
    /\ i = 1
    /\ Len(tests) = 2
    /\ checker[2] # Throw
    /\ Len(calls) = 1
    /\ comparisons = <<>>

\* the module list given to the checker in single-run mode, as raw tokens
CalledModules(n) ==
    [k \in DOMAIN calls[n].options.esModules |-> calls[n].options.esModules[k].raw]

\* C11: in single-run mode two positional tokens are stripped when the first
\* ends in 'node' or 'node.exe' and one otherwise, and the tokens left, in
\* their order, are the module list the checker is given (Scenario D: both
\* invocation styles of mod.js give the list [mod.js]).
C11_ModuleListIsStrippedArgv ==
    (/\ pc = "done"
     /\ ~args.help
     /\ args.test = ""
     /\ RequestedModules(args.positional) # <<>>) =>
        /\ outcome = "returned"
        /\ Len(calls) = 1
        /\ CalledModules(1) = RequestedModules(args.positional)
        /\ args.positional \in {<<NodeTok, BinTok, ModTok>>, <<BinTok, ModTok>>} =>
               CalledModules(1) = <<ModTok>>

\* C12: with help requested main prints the usage text and nothing else: no
\* descriptor is read, the checker is not called, no file is written and main
\* returns, whatever else the command line holds. Otherwise a test-descriptor
\* path makes the run a suite run, in which each case gives the checker only
\* the working directory, the case's resolved module list and the case's own
\* overrides, an override replacing any field it names: the positional module
\* paths and the checker flags of the command line are not passed.
C12_HelpWinsAndSuiteIgnoresFlags ==
    /\ args.help =>
        /\ pc \in {"start", "done"}
        /\ calls = <<>>
        /\ writes = <<>>
        /\ comparisons = <<>>
        /\ files = filesAtStart
        /\ pc = "done" => (outcome = "help" /\ log = <<[kind |-> "help"]>>)
    /\ (~args.help /\ args.test # "") =>
        /\ outcome \notin {"returned", "NoModules", "TypeError", "help"}
        /\ \A n \in DOMAIN calls :
            LET test == tests[calls[n].case]
                o == calls[n].options
            IN /\ DOMAIN o = {"esModules", "cwd"} \cup DOMAIN test.options
               /\ \A f \in DOMAIN test.options : o[f] = test.options[f]
               /\ "cwd" \notin DOMAIN test.options => o.cwd = args.cwd
               /\ "esModules" \notin DOMAIN test.options =>
                      /\ Len(o.esModules) = Len(unresolvedEsModules(test))
                      /\ \A k \in DOMAIN o.esModules :
                            o.esModules[k] = TestFileDir \o <<unresolvedEsModules(test)[k]>>

C12_Witness ==
    /\ ~args.help
    /\ args.warnings
    /\ args.output = "bundle.js"
    /\ ModTok \in { args.positional[k] : k \in DOMAIN args.positional }
    /\ Len(calls) = 2
    /\ "warnings" \in DOMAIN calls[1].options
    /\ calls[1].options.warnings = FALSE
    /\ calls[1].options.cwd = <<"other">>
    /\ DOMAIN calls[2].options = {"esModules", "cwd"}
    /\ Len(calls[2].options.esModules) = 2

\* the help half of C12 happens: help beside a descriptor that holds a case
C12_HelpWitness ==
    /\ args.help
    /\ args.test \in DescriptorFiles
    /\ Len(tests) = 1
    /\ pc = "done"

\* the file at path p is as it was when the run started
Untouched(p) ==
    /\ p \in DOMAIN files <=> p \in DOMAIN filesAtStart
    /\ p \in DOMAIN files => files[p] = filesAtStart[p]

\* the mismatching cases before case k whose snapshot path is p
MismatchedBefore(k, p) ==
    { j \in 1..(k - 1) : j \in Differed /\ expectedOutputPath(tests[j]) = p }

Maximum(S) == CHOOSE x \in S : \A y \in S : y <= x

\* C13 as claimed: when the checker fails on case k of an update run, the
\* snapshot of every mismatching case before k holds that case's actual output,
\* the snapshots of case k and of the later cases are unchanged, and the count
\* of updated expectations is not printed.
C13_PartialUpdateKeepsEachOutput ==
    (outcome = "CheckerError" /\ args.update) =>
        /\ pc = "done"
        /\ \A j \in 1..(i - 1) :
            j \in Differed =>
                /\ expectedOutputPath(tests[j]) \in DOMAIN files
                /\ files[expectedOutputPath(tests[j])] = checker[j]
        /\ \A j \in i..Len(tests) : Untouched(expectedOutputPath(tests[j]))
        /\ LogOf("updated") = <<>>

\* C13 amended: when the checker fails on case k of an update run, every
\* snapshot path of a mismatching case before k holds the UTF-8 encoding of the
\* output of the last such case on that path, every other file is unchanged
\* (the snapshots of case k and of later cases unless they share their path
\* with a mismatching earlier case), and the count of updated expectations is
\* not printed.
C13_PartialUpdateKeepsLastWriter ==
    (outcome = "CheckerError" /\ args.update) =>
        /\ pc = "done"
        /\ \A p \in SnapshotPaths \cup (DOMAIN files) \cup (DOMAIN filesAtStart) :
            IF MismatchedBefore(i, p) = {}
            THEN Untouched(p)
            ELSE /\ p \in DOMAIN files
                 /\ files[p] = Utf8(checker[Maximum(MismatchedBefore(i, p))])
        /\ \A j \in 1..(i - 1) :
            j \in Differed => Len(WritesOf(j)) = 1
        /\ \A n \in DOMAIN writes : writes[n].case < i
        /\ LogOf("updated") = <<>>

C13_Witness ==
    /\ outcome = "CheckerError"
    /\ args.update
    /\ Len(tests) = 2
    /\ i = 2
    /\ Differed = {1}
    /\ expectedOutputPath(tests[1]) # expectedOutputPath(tests[2])
    /\ files # filesAtStart
    /\ Untouched(expectedOutputPath(tests[2]))

\* the counts the final report prints
PrintedCounts == LogOf("updated") \o LogOf("failed")

\* C14: at the final report the accumulator holds one record for each case
\* whose output differed from its expected text and no other, in descriptor
\* order; that number is the count printed and these records are the ones
\* printed; in update mode the snapshot files written are at most that many,
\* and fewer when mismatching cases share a snapshot path.
C14_AccumulatorMatchesEvaluation ==
    AtFinalReport =>
        /\ Len(failedExpectations) = Cardinality(Differed)
        /\ \A k \in DOMAIN tests :
            Len(FailuresOf(k)) = IF k \in Differed THEN 1 ELSE 0
        /\ \A n, m \in DOMAIN failedExpectations :
            n < m => failedExpectations[n].case < failedExpectations[m].case
        /\ IF Differed = {}
           THEN PrintedCounts = <<>> /\ LogOf("diffs") = <<>>
           ELSE /\ Len(PrintedCounts) = 1
                /\ PrintedCounts[1].n = Cardinality(Differed)
                /\ PrintedCounts[1].kind = IF args.update THEN "updated" ELSE "failed"
                /\ Len(LogOf("diffs")) = 1
                /\ LogOf("diffs")[1].items = failedExpectations
        /\ args.update =>
            /\ Cardinality(WrittenPaths) <= Len(failedExpectations)
            /\ (\A j, k \in Differed :
                    j # k => expectedOutputPath(tests[j]) # expectedOutputPath(tests[k]))
                   <=> Cardinality(WrittenPaths) = Len(failedExpectations)

C14_Witness ==
    /\ AtFinalReport
    /\ args.update
    /\ Len(failedExpectations) = 2
    /\ Cardinality(WrittenPaths) = 1
    /\ LogOf("updated") = <<[kind |-> "updated", n |-> 2]>>

====
